---- MODULE Spec2Model ----
(***************************************************************************)
(* AudioMesh (src/main.py.py): the NetworkManager of every node, its two   *)
(* always-on listener threads, its periodic announce/probe threads and the *)
(* commands the UI thread calls on it, over a LAN of UDP datagrams.        *)
(*                                                                         *)
(* A step of the model is one statement of one thread (the interpreter     *)
(* switches threads between statements), except where a whole call only    *)
(* touches state that no other thread writes, which is then one step.      *)
(***************************************************************************)
EXTENDS Integers, Sequences, FiniteSets, TLC

\* ------------------------------------------------------------ configuration
BROADCAST_PORT == 5000
CONTROL_PORT == 5010
AUDIO_PORT == 5012

\* ------------------------------------------------------------------- bounds
\* Sockets a node may hold open at once (connect_to_receivers stops there).
MaxSocks == 2
\* Announce (and probe) threads a node may have alive at once.
MaxThreads == 2

\* -------------------------------------------------------------- the network
ipA == "10.0.0.1"
ipB == "10.0.0.2"
ipC == "10.0.0.3"
Nodes == {ipA, ipB, ipC}
BROADCAST == "<broadcast>"

\* The display name each node's user has typed.
NameOf(n) == CASE n = ipA -> "A" [] n = ipB -> "B" [] OTHER -> "C"
Texts == {"hello"}

\* Python's None.
None == "None"

VARIABLES
    up,                 \* the nodes that run the program
    env,                \* whether hosts outside the model send datagrams too
    role,               \* NetworkManager.role
    local_name,         \* NetworkManager.local_name
    sender_ip,          \* NetworkManager.sender_ip
    sender_name,        \* NetworkManager.sender_name
    devices,            \* NetworkManager.devices: dev_id -> record
    connections,        \* NetworkManager.connections, in insertion order
    lock,               \* NetworkManager._lock is held
    openSocks,          \* the sockets of connections that are not closed
    ui,                 \* the UI thread: the command it is in
    bl,                 \* the broadcast listener thread
    cl,                 \* the control listener thread
    presence_threads,   \* _broadcast_presence threads alive
    discovery_threads,  \* _discover_sender threads alive
    net,                \* datagrams in flight to a node that runs the program
    joined,             \* (ip, name) pairs upserted since devices was cleared
    connected,          \* dev_ids connect_to_receivers accepted since the clear
    audio,              \* AudioManager: is_streaming, capture_stream, receiver,
                        \* loopback_index
    capture,            \* the device stream start_capture opened last
    cb,                 \* the audio subsystem's thread, in the capture callback
    player,             \* the UDPReceiverPlayer start_playback made last
    stale_loops,        \* _loop threads of earlier players that are alive
    faults              \* resources closed a second time, or dropped while open

vars == <<up, env, role, local_name, sender_ip, sender_name, devices,
          connections, lock, openSocks, ui, bl, cl, presence_threads,
          discovery_threads, net, joined, connected, audio, capture, cb,
          player, stale_loops, faults>>

\* Everything of a NetworkManager but its threads' positions.
session == <<role, local_name, sender_ip, sender_name, devices, connections,
             lock, openSocks, joined, connected>>
threads == <<presence_threads, discovery_threads>>
\* The AudioManager, what it opened and the threads it started.
sound == <<audio, capture, cb, player, stale_loops, faults>>

\* ---------------------------------------------------------------- datagrams
Datagram(src, dst, port, type, name, mrole, text) ==
    [src |-> src, dst |-> dst, port |-> port, type |-> type, name |-> name,
     mrole |-> mrole, text |-> text]

PresenceMsg(n) ==
    Datagram(n, BROADCAST, BROADCAST_PORT, "presence", local_name[n], "sender", "")
DiscoverMsg(n) ==
    Datagram(n, BROADCAST, BROADCAST_PORT, "discover", local_name[n], None, "")
JoinMsg(n, to) ==
    Datagram(n, to, CONTROL_PORT, "join", local_name[n], "receiver", "")
AckMsg(n, to) ==
    Datagram(n, to, CONTROL_PORT, "ack", local_name[n], None, "")
ChatMsg(n, to, sender, text) ==
    Datagram(n, to, CONTROL_PORT, "chat", sender, None, text)
\* One block of raw frames.
AudioMsg(n, to) ==
    Datagram(n, to, AUDIO_PORT, "audio", "", None, "")

\* Payloads that are no message: bytes json.loads raises on, and JSON that is
\* no object, on which msg.get raises.
Undecodable == "<not json>"
NotARecord == "<json list>"
\* json.loads(data.decode(errors='ignore')) and the first msg.get succeed.
Decodes(d) == d.type \notin {Undecodable, NotARecord}
\* The message types of the protocol.
ProtocolTypes == {"presence", "discover", "join", "ack", "chat"}

\* What any other program on the LAN may send to a port: the two payloads that
\* are no message, and a message of a type the protocol does not have.
Noise(n, port) ==
    {Datagram(ipB, n, port, t, "B", None, "") :
        t \in {Undecodable, NotARecord, "noise"}}

\* The hosts outside the model that announce and join, as (address, name):
\* host B, and host B again after its user took the name C.
EnvPeers == {<<ipB, "B">>, <<ipB, "C">>}
\* Who may chat: these, host C, and a sender of datagrams that carry node n's
\* own address.
EnvChatters(n) == EnvPeers \cup {<<ipC, "C">>, <<n, "B">>}

\* What hosts outside the model may send to port `port` of node n: the
\* messages of the protocol, and one of each kind that no listener acts on.
EnvDatagrams(n, port) ==
    IF port = BROADCAST_PORT
    THEN {Datagram(p[1], n, port, "presence", p[2], "sender", "") : p \in EnvPeers}
         \cup {Datagram(n, n, port, "presence", "B", "sender", ""),
               Datagram(ipB, n, port, "presence", "B", "receiver", ""),
               Datagram(ipB, n, port, "discover", "B", None, "")}
    ELSE IF port = AUDIO_PORT
    THEN {Datagram(ipB, n, port, "audio", "", None, "")}
    ELSE {Datagram(p[1], n, port, "join", p[2], "receiver", "") : p \in EnvPeers}
         \cup {Datagram(p[1], n, port, "chat", p[2], None, x) :
                 p \in EnvChatters(n), x \in Texts}
         \cup {Datagram(ipB, n, port, "ack", "B", None, "")}

\* What recvfrom on port `port` of node n may return.
Inbox(n, port) ==
    {d \in net : d.dst = n /\ d.port = port}
    \cup (IF env THEN EnvDatagrams(n, port) \cup Noise(n, port) ELSE {})

\* The copies of the datagrams ds (a sequence) that reach a running node: a
\* broadcast reaches every node, its own sender included.
Deliver(ds) ==
    UNION {IF ds[k].dst = BROADCAST
           THEN {[ds[k] EXCEPT !.dst = m] : m \in up}
           ELSE IF ds[k].dst \in up THEN {ds[k]} ELSE {} : k \in DOMAIN ds}

\* sendto of every datagram of ds, and of none.
Sends(ds) == net' = net \cup Deliver(ds)
NoSend == net' = net

\* ----------------------------------------------------------------- registry
\* A dev_id that forgets the name.
MakeDevIdAddressOnly(ip, name) == ip

MakeDevId(ip, name) == ip \o ":" \o name

\* The dev_ids a UI list may hold: of the model's nodes and of the other hosts.
DevIds ==
    {MakeDevId(n, NameOf(n)) : n \in Nodes}
    \cup {MakeDevId(p[1], p[2]) : p \in EnvPeers}

DeviceRecord(ip, name) == [ip |-> ip, name |-> name, status |-> "available"]

NoDevices == [id \in {} |-> DeviceRecord("", "")]

\* self.devices[dev_id] = record
Upsert(devs, id, rec) ==
    [x \in DOMAIN devs \cup {id} |-> IF x = id THEN rec ELSE devs[x]]

\* self.devices.get(dev_id, {}).get("ip")
DevIp(n, id) == IF id \in DOMAIN devices[n] THEN devices[n][id].ip ELSE None

ConnIds(conns) == {conns[k].id : k \in DOMAIN conns}
ConnSocks(conns) == {conns[k].sock : k \in DOMAIN conns}

\* socket.socket(): a descriptor nothing of node n refers to.
SockIds == 1..(4 * MaxSocks + 2)
SocksHeld(n) ==
    openSocks[n] \cup ConnSocks(connections[n]) \cup ConnSocks(cl[n].snap)
    \cup ConnSocks(cb[n].snap)
NewSock(n, taken) ==
    CHOOSE k \in SockIds \ (SocksHeld(n) \cup taken) :
        \A j \in SockIds \ (SocksHeld(n) \cup taken) : k <= j

\* ------------------------------------------------------------ thread states
UiIdle == [pc |-> "idle", op |-> "none", name |-> "", from |-> None, i |-> 0]
BlIdle == [pc |-> "recv", ip |-> None, name |-> "", emitted |-> None,
           known |-> FALSE]
ClIdle == [pc |-> "recv", ip |-> None, name |-> "", text |-> "", snap |-> <<>>,
           idx |-> 0, sent |-> <<>>, dup |-> FALSE]

\* The callback is not running.
CbIdle == [pc |-> "idle", active |-> FALSE, snap |-> <<>>, idx |-> 0,
           due |-> <<>>, sent |-> <<>>]
\* No UDPReceiverPlayer was made yet.
NoPlayer == [running |-> FALSE, sock |-> "none", stream |-> "none",
             loop |-> "none"]

\* ----------------------------------------------------------- initial states
\* AudioManager.__init__ with the loopback device _find_loopback returned.
InitSound(loopback) ==
    /\ audio = [n \in Nodes |-> [is_streaming |-> FALSE, capture_stream |-> None,
                                  receiver |-> None, loopback_index |-> loopback]]
    /\ capture = [n \in Nodes |-> "none"]
    /\ cb = [n \in Nodes |-> CbIdle]
    /\ player = [n \in Nodes |-> NoPlayer]
    /\ stale_loops = [n \in Nodes |-> 0]
    /\ faults = [n \in Nodes |-> {}]

\* NetworkManager.__init__ on every node: no role, empty tables, both
\* listeners started and waiting in recvfrom.
InitNodes ==
    /\ role = [n \in Nodes |-> None]
    /\ local_name = [n \in Nodes |-> ""]
    /\ sender_ip = [n \in Nodes |-> None]
    /\ sender_name = [n \in Nodes |-> ""]
    /\ devices = [n \in Nodes |-> NoDevices]
    /\ connections = [n \in Nodes |-> <<>>]
    /\ lock = [n \in Nodes |-> FALSE]
    /\ openSocks = [n \in Nodes |-> {}]
    /\ ui = [n \in Nodes |-> UiIdle]
    /\ bl = [n \in Nodes |-> BlIdle]
    /\ cl = [n \in Nodes |-> ClIdle]
    /\ presence_threads = [n \in Nodes |-> 0]
    /\ discovery_threads = [n \in Nodes |-> 0]
    /\ net = {}
    /\ joined = [n \in Nodes |-> {}]
    /\ connected = [n \in Nodes |-> {}]
    /\ InitSound("0")

\* One node among hosts that send it whatever they like.
Init == InitNodes /\ up = {ipA} /\ env = TRUE

\* ------------------------------------------------------ UI thread: commands
\* start_as_sender / start_as_receiver: the call, up to `with self._lock` of
\* _reset.
StartRole(n, op, name) ==
    /\ n \in up
    /\ ui[n].pc = "idle"
    /\ ~lock[n]
    /\ IF op = "start_as_sender"
       THEN presence_threads[n] < MaxThreads
       ELSE discovery_threads[n] < MaxThreads
    /\ ui' = [ui EXCEPT ![n] = [pc |-> "reset_close", op |-> op, name |-> name,
                                from |-> role[n], i |-> 1]]
    /\ lock' = [lock EXCEPT ![n] = TRUE]
    /\ NoSend
    /\ UNCHANGED <<up, env, sound, role, local_name, sender_ip, sender_name, devices,
                   connections, openSocks, bl, cl, threads, joined, connected>>

StartAsSender(n) == StartRole(n, "start_as_sender", NameOf(n))
StartAsReceiver(n) == StartRole(n, "start_as_receiver", NameOf(n))

\* disconnect_all: the call, up to `with self._lock`.
DisconnectAll(n) ==
    /\ n \in up
    /\ ui[n].pc = "idle"
    /\ ~lock[n]
    /\ ui' = [ui EXCEPT ![n] = [pc |-> "reset_close", op |-> "disconnect_all",
                                name |-> "", from |-> role[n], i |-> 1]]
    /\ lock' = [lock EXCEPT ![n] = TRUE]
    /\ NoSend
    /\ UNCHANGED <<up, env, sound, role, local_name, sender_ip, sender_name, devices,
                   connections, openSocks, bl, cl, threads, joined, connected>>

\* for s in self.connections.values(): s.close()   (one socket a step)
ResetClose(n) ==
    /\ n \in up
    /\ ui[n].pc = "reset_close"
    /\ ui[n].i <= Len(connections[n])
    /\ openSocks' = [openSocks EXCEPT ![n] = @ \ {connections[n][ui[n].i].sock}]
    /\ ui' = [ui EXCEPT ![n].i = @ + 1]
    /\ NoSend
    /\ UNCHANGED <<up, env, sound, role, local_name, sender_ip, sender_name, devices,
                   connections, lock, bl, cl, threads, joined, connected>>

\* self.connections.clear(); disconnect_all then leaves the lock and returns.
ResetClearConnections(n) ==
    /\ n \in up
    /\ ui[n].pc = "reset_close"
    /\ ui[n].i > Len(connections[n])
    /\ connections' = [connections EXCEPT ![n] = <<>>]
    /\ connected' = [connected EXCEPT ![n] = {}]
    /\ IF ui[n].op = "disconnect_all"
       THEN /\ ui' = [ui EXCEPT ![n] = UiIdle]
            /\ lock' = [lock EXCEPT ![n] = FALSE]
       ELSE /\ ui' = [ui EXCEPT ![n].pc = "reset_rest", ![n].i = 0]
            /\ lock' = lock
    /\ NoSend
    /\ UNCHANGED <<up, env, sound, role, local_name, sender_ip, sender_name, devices,
                   openSocks, bl, cl, threads, joined>>

\* self.devices.clear(); self.sender_ip = None; self.sender_name = "" and the
\* end of `with self._lock`. The control listener reads devices and the
\* broadcast listener the sender fields, neither reads both: one step.
ResetClearRest(n) ==
    /\ n \in up
    /\ ui[n].pc = "reset_rest"
    /\ devices' = [devices EXCEPT ![n] = NoDevices]
    /\ joined' = [joined EXCEPT ![n] = {}]
    /\ sender_ip' = [sender_ip EXCEPT ![n] = None]
    /\ sender_name' = [sender_name EXCEPT ![n] = ""]
    /\ lock' = [lock EXCEPT ![n] = FALSE]
    /\ ui' = [ui EXCEPT ![n].pc = "enter_role"]
    /\ NoSend
    /\ UNCHANGED <<up, env, sound, role, local_name, connections, openSocks, bl, cl,
                   threads, connected>>

RoleOf(op) == IF op = "start_as_sender" THEN "sender" ELSE "receiver"

\* self.role = ...; self.local_name = name; sender_status_changed.emit(...);
\* the periodic thread is started; return. The role is what the listeners
\* wait for; the name a node takes is always the same one.
EnterRole(n) ==
    /\ n \in up
    /\ ui[n].pc = "enter_role"
    /\ role' = [role EXCEPT ![n] = RoleOf(ui[n].op)]
    /\ local_name' = [local_name EXCEPT ![n] = ui[n].name]
    /\ IF ui[n].op = "start_as_sender"
       THEN /\ presence_threads' = [presence_threads EXCEPT ![n] = @ + 1]
            /\ discovery_threads' = discovery_threads
       ELSE /\ discovery_threads' = [discovery_threads EXCEPT ![n] = @ + 1]
            /\ presence_threads' = presence_threads
    /\ ui' = [ui EXCEPT ![n] = UiIdle]
    /\ NoSend
    /\ UNCHANGED <<up, env, sound, sender_ip, sender_name, devices, connections, lock,
                   openSocks, bl, cl, joined, connected>>

\* connect_to_receivers(selected): the connections and the acks its loop
\* leaves, from the connections `conns` and the acks `acks` so far.
RECURSIVE ConnectLoop(_, _, _, _)
ConnectLoop(n, selected, conns, acks) ==
    IF selected = <<>>
    THEN [conns |-> conns, acks |-> acks]
    ELSE LET dev_id == Head(selected)
             ip == DevIp(n, dev_id)
         IN  IF ip = None \/ dev_id \in ConnIds(conns)
             THEN ConnectLoop(n, Tail(selected), conns, acks)
             ELSE ConnectLoop(n, Tail(selected),
                              Append(conns, [id |-> dev_id,
                                             sock |-> NewSock(n, ConnSocks(conns))]),
                              Append(acks, AckMsg(n, ip)))

\* What the UI may hand to connect_to_receivers: one or two list items.
Selections ==
    {<<a>> : a \in DevIds} \cup {s \in DevIds \X DevIds : s[1] /= s[2]}

\* What connect_to_receivers(selected) does to the node. Only the UI thread
\* writes connections, so the whole call is one step.
Connects(n, selected) ==
    /\ LET r == ConnectLoop(n, selected, connections[n], <<>>)
       IN  /\ Len(r.conns) <= MaxSocks
           /\ connections' = [connections EXCEPT ![n] = r.conns]
           /\ openSocks' = [openSocks EXCEPT ![n] = @ \cup ConnSocks(r.conns)]
           /\ Sends(r.acks)
    /\ connected' = [connected EXCEPT ![n] =
                        @ \cup {selected[k] : k \in {j \in DOMAIN selected :
                                                       DevIp(n, selected[j]) /= None}}]
    /\ UNCHANGED <<role, local_name, sender_ip, sender_name, devices, lock,
                   joined>>

\* connect_to_receivers(selected)
ConnectToReceivers(n, selected) ==
    /\ n \in up
    /\ ui[n].pc = "idle"
    /\ Connects(n, selected)
    /\ UNCHANGED <<up, env, sound, ui, bl, cl, threads>>

\* A loop of send_chat that leaves after its first connection.
ChatFanoutFirst(n, conns, text) ==
    IF conns = <<>>
    THEN <<>>
    ELSE <<ChatMsg(n, DevIp(n, Head(conns).id), local_name[n], text)>>

\* The sender's loop of send_chat: one datagram per connection that has a
\* record, unless its sendto raises (a closed socket), which is swallowed.
RECURSIVE ChatFanout(_, _, _)
ChatFanout(n, conns, text) ==
    IF conns = <<>>
    THEN <<>>
    ELSE LET ip == DevIp(n, Head(conns).id)
         IN  IF ip = None \/ Head(conns).sock \notin openSocks[n]
             THEN ChatFanout(n, Tail(conns), text)
             ELSE <<ChatMsg(n, ip, local_name[n], text)>>
                  \o ChatFanout(n, Tail(conns), text)

\* send_chat without the test that a sender is known.
SendChatOutUnguarded(n, text) ==
    IF role[n] = "sender"
    THEN ChatFanout(n, connections[n], text)
    ELSE IF role[n] = "receiver"
         THEN <<ChatMsg(n, sender_ip[n], local_name[n], text)>>
         ELSE <<>>

\* The datagrams send_chat(message) sends.
SendChatOut(n, text) ==
    IF role[n] = "sender"
    THEN ChatFanout(n, connections[n], text)
    ELSE IF role[n] = "receiver" /\ sender_ip[n] /= None
         THEN <<ChatMsg(n, sender_ip[n], local_name[n], text)>>
         ELSE <<>>

\* ChatManager.send(text) up to the return of self.network.send_chat(text);
\* the UI thread keeps how many datagrams went out.
SendChat(n, text) ==
    /\ n \in up
    /\ ui[n].pc = "idle"
    /\ Sends(SendChatOut(n, text))
    /\ ui' = [ui EXCEPT ![n] = [pc |-> "message_sent", op |-> "send_chat",
                                name |-> text, from |-> role[n],
                                i |-> Len(SendChatOut(n, text))]]
    /\ UNCHANGED <<up, env, sound, bl, cl, threads>> /\ UNCHANGED session

\* self.message_sent.emit(self.network.local_name, text, True), and return
MessageSent(n) ==
    /\ n \in up
    /\ ui[n].pc = "message_sent"
    /\ ui' = [ui EXCEPT ![n] = UiIdle]
    /\ NoSend
    /\ UNCHANGED <<up, env, sound, bl, cl, threads>> /\ UNCHANGED session

\* ------------------------------------------------- UI thread: audio commands
\* A resource after close() is called on it; a second close is a fault.
Closed(status) == IF status = "none" THEN "none" ELSE "closed"
CloseFaults(status, what) ==
    IF status = "closed" THEN {what \o " closed twice"} ELSE {}
\* Dropping the last reference to a resource that is open is a fault.
DropFaults(status, what) ==
    IF status = "open" THEN {what \o " dropped open"} ELSE {}

\* _start_stream: an empty selection is refused with a message box; otherwise
\* connect_to_receivers(sel), and start_capture comes next.
StartStream(n, selected) ==
    /\ n \in up
    /\ ui[n].pc = "idle"
    /\ IF selected = <<>>
       THEN /\ ui' = [ui EXCEPT ![n] = [UiIdle EXCEPT !.pc = "warning",
                                                      !.op = "start_stream"]]
            /\ NoSend
            /\ UNCHANGED session
       ELSE /\ ui' = [ui EXCEPT ![n] = [UiIdle EXCEPT !.pc = "start_capture",
                                                      !.op = "start_stream",
                                                      !.from = role[n]]]
            /\ Connects(n, selected)
    /\ UNCHANGED <<up, env, sound, bl, cl, threads>>

\* start_capture: nothing when capture is on; a message box when there is no
\* loopback device; else is_streaming is set, and sd.InputStream(...) either
\* gives the stream, which is started, or raises. Nothing catches what it
\* raises: the handler ends there, and PyQt either aborts the process or, when
\* an exception hook is installed, goes on with the event loop.
StartCapture(n) ==
    /\ n \in up
    /\ ui[n].pc = "start_capture"
    /\ IF audio[n].is_streaming
       THEN /\ ui' = [ui EXCEPT ![n] = UiIdle]
            /\ UNCHANGED <<up, audio, capture, faults>>
       ELSE IF audio[n].loopback_index = None
       THEN /\ ui' = [ui EXCEPT ![n].pc = "warning"]
            /\ UNCHANGED <<up, audio, capture, faults>>
       ELSE /\ ui' = [ui EXCEPT ![n] = UiIdle]
            /\ \E outcome \in {"opened", "raised", "aborted"} :
                 IF outcome = "opened"
                 THEN /\ audio' = [audio EXCEPT ![n].is_streaming = TRUE,
                                                ![n].capture_stream = "stream"]
                      /\ capture' = [capture EXCEPT ![n] = "open"]
                      /\ faults' = [faults EXCEPT ![n] =
                                       @ \cup DropFaults(capture[n], "capture")]
                      /\ up' = up
                 ELSE /\ audio' = [audio EXCEPT ![n].is_streaming = TRUE]
                      /\ up' = IF outcome = "aborted" THEN up \ {n} ELSE up
                      /\ UNCHANGED <<capture, faults>>
    /\ NoSend
    /\ UNCHANGED <<env, cb, player, stale_loops, bl, cl, threads>>
    /\ UNCHANGED session

\* QMessageBox.warning returns when the user closes it.
Dismiss(n) ==
    /\ n \in up
    /\ ui[n].pc = "warning"
    /\ ui' = [ui EXCEPT ![n] = UiIdle]
    /\ NoSend
    /\ UNCHANGED <<up, env, sound, bl, cl, threads>> /\ UNCHANGED session

\* _stop_stream, into stop_capture: self.is_streaming = False
StopStream(n) ==
    /\ n \in up
    /\ ui[n].pc = "idle"
    /\ audio' = [audio EXCEPT ![n].is_streaming = FALSE]
    /\ ui' = [ui EXCEPT ![n] = [UiIdle EXCEPT !.pc = "stop_capture",
                                              !.op = "stop_stream"]]
    /\ NoSend
    /\ UNCHANGED <<up, env, capture, cb, player, stale_loops, faults, bl, cl,
                   threads>>
    /\ UNCHANGED session

\* A stop_capture that keeps its reference to the stream it closed.
StopCaptureCloseKeeping(n) ==
    /\ n \in up
    /\ ui[n].pc = "stop_capture"
    /\ IF audio[n].capture_stream = None
       THEN UNCHANGED <<capture, faults>>
       ELSE /\ cb[n].pc = "idle"
            /\ capture' = [capture EXCEPT ![n] = Closed(@)]
            /\ faults' = [faults EXCEPT ![n] =
                             @ \cup CloseFaults(capture[n], "capture")]
    /\ ui' = [ui EXCEPT ![n] = UiIdle]
    /\ NoSend
    /\ UNCHANGED <<up, env, audio, cb, player, stale_loops, bl, cl, threads>>
    /\ UNCHANGED session

\* The rest of stop_capture: when there is a capture_stream, its stop(), which
\* returns when no callback is running, its close(), and
\* self.capture_stream = None.
StopCaptureClose(n) ==
    /\ n \in up
    /\ ui[n].pc = "stop_capture"
    /\ IF audio[n].capture_stream = None
       THEN UNCHANGED <<audio, capture, faults>>
       ELSE /\ cb[n].pc = "idle"
            /\ capture' = [capture EXCEPT ![n] = Closed(@)]
            /\ faults' = [faults EXCEPT ![n] =
                             @ \cup CloseFaults(capture[n], "capture")]
            /\ audio' = [audio EXCEPT ![n].capture_stream = None]
    /\ ui' = [ui EXCEPT ![n] = UiIdle]
    /\ NoSend
    /\ UNCHANGED <<up, env, cb, player, stale_loops, bl, cl, threads>>
    /\ UNCHANGED session

\* start_playback: nothing when a player exists; else UDPReceiverPlayer(),
\* which opens the output stream and binds the socket, and start(), which
\* starts its _loop thread. The last player's thread may still be alive.
StartPlayback(n) ==
    /\ n \in up
    /\ ui[n].pc = "idle"
    /\ stale_loops[n] < MaxThreads
    /\ IF audio[n].receiver /= None
       THEN UNCHANGED <<audio, player, stale_loops, faults>>
       ELSE /\ audio' = [audio EXCEPT ![n].receiver = "player"]
            /\ player' = [player EXCEPT ![n] =
                             [running |-> TRUE, sock |-> "open",
                              stream |-> "open", loop |-> "top"]]
            /\ stale_loops' = [stale_loops EXCEPT ![n] =
                                  IF player[n].loop \in {"none", "exited"}
                                  THEN @ ELSE @ + 1]
            /\ faults' = [faults EXCEPT ![n] =
                             @ \cup DropFaults(player[n].sock, "socket")
                               \cup DropFaults(player[n].stream, "stream")]
    /\ NoSend
    /\ UNCHANGED <<up, env, capture, cb, ui, bl, cl, threads>>
    /\ UNCHANGED session

\* UDPReceiverPlayer.stop on the player pl: running is cleared, the socket is
\* closed, stream.stop_stream() raises or not and stream.close() is skipped
\* when it does, and p.terminate() closes the stream if it is still open.
PlayerStop(pl, raised) ==
    LET after_close == IF raised THEN pl.stream ELSE Closed(pl.stream)
    IN  [pl EXCEPT !.running = FALSE,
                   !.sock = Closed(pl.sock),
                   !.stream = IF after_close = "open" THEN "closed"
                              ELSE after_close]

\* The faults of UDPReceiverPlayer.stop on the player pl.
PlayerStopFaults(pl, raised) ==
    CloseFaults(pl.sock, "socket")
    \cup (IF raised THEN {} ELSE CloseFaults(pl.stream, "stream"))

\* stop_playback: nothing without a player; else self.receiver.stop() and
\* self.receiver = None.
StopPlayback(n) ==
    /\ n \in up
    /\ ui[n].pc = "idle"
    /\ IF audio[n].receiver = None
       THEN UNCHANGED <<audio, player, faults>>
       ELSE /\ \E raised \in BOOLEAN :
                 /\ player' = [player EXCEPT ![n] = PlayerStop(@, raised)]
                 /\ faults' = [faults EXCEPT ![n] =
                                  @ \cup PlayerStopFaults(player[n], raised)]
            /\ audio' = [audio EXCEPT ![n].receiver = None]
    /\ NoSend
    /\ UNCHANGED <<up, env, capture, cb, stale_loops, ui, bl, cl, threads>>
    /\ UNCHANGED session

\* ------------------------------------------------------------ audio threads
\* The audio subsystem calls callback with a block: it returns at once when
\* is_streaming is off.
CallbackEnter(n) ==
    /\ n \in up
    /\ capture[n] = "open"
    /\ cb[n].pc = "idle"
    /\ cb' = [cb EXCEPT ![n] = [CbIdle EXCEPT
                                  !.pc = IF audio[n].is_streaming
                                         THEN "snapshot" ELSE "done",
                                  !.active = audio[n].is_streaming]]
    /\ NoSend
    /\ UNCHANGED <<up, env, audio, capture, player, stale_loops, faults, ui, bl,
                   cl, threads>>
    /\ UNCHANGED session

\* The addresses of the peers of conns that have a record, in order.
RECURSIVE Recorded(_, _)
Recorded(n, conns) ==
    IF conns = <<>>
    THEN <<>>
    ELSE (IF DevIp(n, Head(conns).id) = None THEN <<>>
          ELSE <<DevIp(n, Head(conns).id)>>)
         \o Recorded(n, Tail(conns))

\* list(self.network.connections.items()): the peers this block is due to.
CallbackSnapshot(n) ==
    /\ n \in up
    /\ cb[n].pc = "snapshot"
    /\ cb' = [cb EXCEPT ![n].pc = "iter", ![n].snap = connections[n],
                        ![n].idx = 1, ![n].due = Recorded(n, connections[n])]
    /\ NoSend
    /\ UNCHANGED <<up, env, audio, capture, player, stale_loops, faults, ui, bl,
                   cl, threads>>
    /\ UNCHANGED session

\* One turn of the callback's loop: the record is looked up, a peer without
\* one is passed over, sendto is tried; on a closed socket it raises, which is
\* swallowed.
CallbackIter(n) ==
    /\ n \in up
    /\ cb[n].pc = "iter"
    /\ cb[n].idx <= Len(cb[n].snap)
    /\ LET e == cb[n].snap[cb[n].idx]
           ip == DevIp(n, e.id)
       IN  IF ip = None
           THEN /\ NoSend
                /\ cb' = [cb EXCEPT ![n].idx = @ + 1]
           ELSE /\ IF e.sock \in openSocks[n]
                   THEN Sends(<<AudioMsg(n, ip)>>)
                   ELSE NoSend
                /\ cb' = [cb EXCEPT ![n].idx = @ + 1,
                                    ![n].sent = Append(@, ip)]
    /\ UNCHANGED <<up, env, audio, capture, player, stale_loops, faults, ui, bl,
                   cl, threads>>
    /\ UNCHANGED session

\* The loop is over: time.sleep(0.0005).
CallbackSleep(n) ==
    /\ n \in up
    /\ cb[n].pc = "iter"
    /\ cb[n].idx > Len(cb[n].snap)
    /\ cb' = [cb EXCEPT ![n].pc = "done"]
    /\ NoSend
    /\ UNCHANGED <<up, env, audio, capture, player, stale_loops, faults, ui, bl,
                   cl, threads>>
    /\ UNCHANGED session

\* The callback returns.
CallbackReturn(n) ==
    /\ n \in up
    /\ cb[n].pc = "done"
    /\ cb' = [cb EXCEPT ![n] = CbIdle]
    /\ NoSend
    /\ UNCHANGED <<up, env, audio, capture, player, stale_loops, faults, ui, bl,
                   cl, threads>>
    /\ UNCHANGED session

\* One step of the _loop thread of the latest player: the test of running,
\* recvfrom (a datagram, the timeout, or the error of a closed socket), and
\* stream.write, whose errors are ignored.
PlayerLoop(n) ==
    /\ n \in up
    /\ \/ /\ player[n].loop = "top"
          /\ player' = [player EXCEPT ![n].loop = IF player[n].running
                                                  THEN "recv" ELSE "exited"]
          /\ NoSend
       \/ /\ player[n].loop = "recv"
          /\ player[n].sock = "closed"
          /\ player' = [player EXCEPT ![n].loop = "exited"]
          /\ NoSend
       \/ /\ player[n].loop = "recv"
          /\ player[n].sock = "open"
          /\ player' = [player EXCEPT ![n].loop = "top"]
          /\ NoSend
       \/ /\ player[n].loop = "recv"
          /\ player[n].sock = "open"
          /\ \E d \in Inbox(n, AUDIO_PORT) : net' = net \ {d}
          /\ player' = [player EXCEPT ![n].loop = "write"]
       \/ /\ player[n].loop = "write"
          /\ player' = [player EXCEPT ![n].loop = "top"]
          /\ NoSend
    /\ UNCHANGED <<up, env, audio, capture, cb, stale_loops, faults, ui, bl, cl,
                   threads>>
    /\ UNCHANGED session

\* The _loop thread of an earlier player, whose socket is closed and whose
\* running is off, ends.
StaleLoopExit(n) ==
    /\ n \in up
    /\ stale_loops[n] > 0
    /\ stale_loops' = [stale_loops EXCEPT ![n] = @ - 1]
    /\ NoSend
    /\ UNCHANGED <<up, env, audio, capture, cb, player, faults, ui, bl, cl,
                   threads>>
    /\ UNCHANGED session

\* ------------------------------------------------------ broadcast listener
\* Whether run() of the broadcast listener acts on the datagram d.
BroadcastAccepts(n, d) ==
    /\ d.src /= n
    /\ Decodes(d)
    /\ d.type = "presence" /\ d.mrole = "sender"
    /\ role[n] = "receiver"

\* recvfrom returns d: the own-address test, the decoding and the tests on
\* the message
BroadcastReceive(n, d) ==
    /\ n \in up
    /\ bl[n].pc = "recv"
    /\ d \in Inbox(n, BROADCAST_PORT)
    /\ net' = net \ {d}
    /\ bl' = IF BroadcastAccepts(n, d)
             THEN [bl EXCEPT ![n] = [BlIdle EXCEPT !.pc = "set_sender",
                                                   !.ip = d.src,
                                                   !.name = d.name]]
             ELSE IF d.src /= n /\ ~Decodes(d)
             THEN [bl EXCEPT ![n] = [BlIdle EXCEPT !.pc = "except"]]
             ELSE bl
    /\ UNCHANGED <<up, env, sound, ui, cl, threads>> /\ UNCHANGED session

BroadcastRecv(n) == \E d \in Inbox(n, BROADCAST_PORT) : BroadcastReceive(n, d)

\* self.sender_ip = ip; self.sender_name = msg.get("name", "Sender"). The
\* thread keeps whether the address it wrote was there already.
BroadcastSetSender(n) ==
    /\ n \in up
    /\ bl[n].pc = "set_sender"
    /\ sender_ip' = [sender_ip EXCEPT ![n] = bl[n].ip]
    /\ sender_name' = [sender_name EXCEPT ![n] = bl[n].name]
    /\ bl' = [bl EXCEPT ![n].pc = "emit",
                        ![n].known = (sender_ip[n] = bl[n].ip)]
    /\ NoSend
    /\ UNCHANGED <<up, env, sound, role, local_name, devices, connections, lock,
                   openSocks, ui, cl, threads, joined, connected>>

\* self.sender_status_changed.emit(True, self.sender_name): the thread has
\* emitted the name it read.
BroadcastEmit(n) ==
    /\ n \in up
    /\ bl[n].pc = "emit"
    /\ bl' = [bl EXCEPT ![n].pc = "join", ![n].emitted = sender_name[n]]
    /\ NoSend
    /\ UNCHANGED <<up, env, sound, ui, cl, threads>> /\ UNCHANGED session

\* A receiver that never registers.
SendJoinOutNothing(n) == <<>>

\* A receiver that registers with a sender the first time it records it.
SendJoinOutIfNew(n) ==
    IF sender_ip[n] = None \/ bl[n].known
    THEN <<>>
    ELSE <<JoinMsg(n, sender_ip[n])>>

\* The datagrams _send_join_to_sender sends.
SendJoinOut(n) ==
    IF sender_ip[n] = None THEN <<>> ELSE <<JoinMsg(n, sender_ip[n])>>

\* self._send_join_to_sender(), and back to recvfrom
BroadcastJoin(n) ==
    /\ n \in up
    /\ bl[n].pc = "join"
    /\ Sends(SendJoinOut(n))
    /\ bl' = [bl EXCEPT ![n] = BlIdle]
    /\ UNCHANGED <<up, env, sound, ui, cl, threads>> /\ UNCHANGED session

\* except: pass, and back to recvfrom
BroadcastExcept(n) ==
    /\ n \in up
    /\ bl[n].pc = "except"
    /\ bl' = [bl EXCEPT ![n] = BlIdle]
    /\ NoSend
    /\ UNCHANGED <<up, env, sound, ui, cl, threads>> /\ UNCHANGED session

\* -------------------------------------------------------- control listener
\* A dispatch that takes every message that is no join for a chat.
ControlDispatchLax(n, d) ==
    IF ~Decodes(d)
    THEN [ClIdle EXCEPT !.pc = "except"]
    ELSE IF d.type = "join" /\ role[n] = "sender"
    THEN [ClIdle EXCEPT !.pc = "join_insert", !.ip = d.src, !.name = d.name]
    ELSE [ClIdle EXCEPT !.pc = "chat", !.ip = d.src, !.name = d.name,
                        !.text = d.text]

\* The control listener after recvfrom returned d: a payload that is no
\* message raises into `except: pass`; a join is acted on when the role is
\* sender, a chat in every role, nothing else.
ControlDispatch(n, d) ==
    IF ~Decodes(d)
    THEN [ClIdle EXCEPT !.pc = "except"]
    ELSE IF d.type = "join" /\ role[n] = "sender"
    THEN [ClIdle EXCEPT !.pc = "join_insert", !.ip = d.src, !.name = d.name]
    ELSE IF d.type = "chat"
         THEN [ClIdle EXCEPT !.pc = "chat", !.ip = d.src, !.name = d.name,
                             !.text = d.text]
         ELSE ClIdle

\* recvfrom returns d: the decoding and the tests on the message type
ControlReceive(n, d) ==
    /\ n \in up
    /\ cl[n].pc = "recv"
    /\ d \in Inbox(n, CONTROL_PORT)
    /\ net' = net \ {d}
    /\ cl' = [cl EXCEPT ![n] = ControlDispatch(n, d)]
    /\ UNCHANGED <<up, env, sound, ui, bl, threads>> /\ UNCHANGED session

ControlRecv(n) == \E d \in Inbox(n, CONTROL_PORT) : ControlReceive(n, d)

\* A join branch that opens a socket to the peer it registers.
ControlJoinInsertConnecting(n) ==
    /\ n \in up
    /\ cl[n].pc = "join_insert"
    /\ ~lock[n]
    /\ LET dev_id == MakeDevId(cl[n].ip, cl[n].name)
           s == NewSock(n, {})
       IN  /\ devices' = [devices EXCEPT ![n] =
                            Upsert(@, dev_id, DeviceRecord(cl[n].ip, cl[n].name))]
           /\ cl' = [cl EXCEPT ![n].pc = "join_emit",
                               ![n].dup = dev_id \in DOMAIN devices[n]]
           /\ IF dev_id \in ConnIds(connections[n])
                 \/ Len(connections[n]) >= MaxSocks
              THEN UNCHANGED <<connections, openSocks>>
              ELSE /\ connections' = [connections EXCEPT ![n] =
                                        Append(@, [id |-> dev_id, sock |-> s])]
                   /\ openSocks' = [openSocks EXCEPT ![n] = @ \cup {s}]
    /\ joined' = [joined EXCEPT ![n] = @ \cup {<<cl[n].ip, cl[n].name>>}]
    /\ NoSend
    /\ UNCHANGED <<up, env, sound, role, local_name, sender_ip, sender_name,
                   lock, ui, bl, threads, connected>>

\* with self._lock: self.devices[dev_id] = {...}
ControlJoinInsert(n) ==
    /\ n \in up
    /\ cl[n].pc = "join_insert"
    /\ ~lock[n]
    /\ LET dev_id == MakeDevId(cl[n].ip, cl[n].name)
       IN  /\ devices' = [devices EXCEPT ![n] =
                            Upsert(@, dev_id, DeviceRecord(cl[n].ip, cl[n].name))]
           /\ cl' = [cl EXCEPT ![n].pc = "join_emit",
                               ![n].dup = dev_id \in DOMAIN devices[n]]
    /\ joined' = [joined EXCEPT ![n] = @ \cup {<<cl[n].ip, cl[n].name>>}]
    /\ NoSend
    /\ UNCHANGED <<up, env, sound, role, local_name, sender_ip, sender_name,
                   connections, lock, openSocks, ui, bl, threads, connected>>

\* self.device_discovered.emit(dev_id, name, ip)
ControlJoinEmit(n) ==
    /\ n \in up
    /\ cl[n].pc = "join_emit"
    /\ cl' = [cl EXCEPT ![n].pc = "join_done"]
    /\ NoSend
    /\ UNCHANGED <<up, env, sound, ui, bl, threads>> /\ UNCHANGED session

\* self.chat_received.emit(sender, message, time), then the role decides on
\* the relay.
ControlChatEmit(n) ==
    /\ n \in up
    /\ cl[n].pc = "chat"
    /\ cl' = [cl EXCEPT ![n].pc = IF role[n] = "sender"
                                  THEN "relay_snapshot"
                                  ELSE "chat_done"]
    /\ NoSend
    /\ UNCHANGED <<up, env, sound, ui, bl, threads>> /\ UNCHANGED session

\* list(self.connections.items())
ControlRelaySnapshot(n) ==
    /\ n \in up
    /\ cl[n].pc = "relay_snapshot"
    /\ cl' = [cl EXCEPT ![n].pc = "relay_iter", ![n].snap = connections[n],
                        ![n].idx = 1]
    /\ NoSend
    /\ UNCHANGED <<up, env, sound, ui, bl, threads>> /\ UNCHANGED session

\* A relay that skips a peer only when it has no record.
RelaySkipsNobody(n, dev_id, src) == DevIp(n, dev_id) = None

\* Whether the relay skips the peer dev_id for a chat that came from src.
RelaySkips(n, dev_id, src) == DevIp(n, dev_id) = None \/ DevIp(n, dev_id) = src

\* One turn of the relay loop: the record is looked up, the peer the chat came
\* from is skipped, sendto on a closed socket raises and is swallowed.
ControlRelayIter(n) ==
    /\ n \in up
    /\ cl[n].pc = "relay_iter"
    /\ cl[n].idx <= Len(cl[n].snap)
    /\ LET e == cl[n].snap[cl[n].idx]
           rip == DevIp(n, e.id)
       IN  IF RelaySkips(n, e.id, cl[n].ip) \/ e.sock \notin openSocks[n]
           THEN /\ NoSend
                /\ cl' = [cl EXCEPT ![n].idx = @ + 1]
           ELSE /\ Sends(<<ChatMsg(n, rip, cl[n].name, cl[n].text)>>)
                /\ cl' = [cl EXCEPT ![n].idx = @ + 1,
                                    ![n].sent = Append(@, rip)]
    /\ UNCHANGED <<up, env, sound, ui, bl, threads>> /\ UNCHANGED session

\* Whether the control listener is through with the message it handles.
ControlDone(n) ==
    \/ cl[n].pc \in {"join_done", "chat_done", "except"}
    \/ cl[n].pc = "relay_iter" /\ cl[n].idx > Len(cl[n].snap)

\* Back to recvfrom.
ControlLoop(n) ==
    /\ n \in up
    /\ ControlDone(n)
    /\ cl' = [cl EXCEPT ![n] = ClIdle]
    /\ NoSend
    /\ UNCHANGED <<up, env, sound, ui, bl, threads>> /\ UNCHANGED session

\* --------------------------------------------------------- periodic threads
\* One turn of a _broadcast_presence thread: it announces while the role is
\* sender and ends when it is not.
PresenceLoop(n) ==
    /\ n \in up
    /\ presence_threads[n] > 0
    /\ IF role[n] = "sender"
       THEN /\ Sends(<<PresenceMsg(n)>>)
            /\ presence_threads' = presence_threads
       ELSE /\ NoSend
            /\ presence_threads' = [presence_threads EXCEPT ![n] = @ - 1]
    /\ UNCHANGED <<up, env, sound, ui, bl, cl, discovery_threads>> /\ UNCHANGED session

\* One turn of a _discover_sender thread.
DiscoverLoop(n) ==
    /\ n \in up
    /\ discovery_threads[n] > 0
    /\ IF role[n] = "receiver"
       THEN /\ Sends(<<DiscoverMsg(n)>>)
            /\ discovery_threads' = discovery_threads
       ELSE /\ NoSend
            /\ discovery_threads' = [discovery_threads EXCEPT ![n] = @ - 1]
    /\ UNCHANGED <<up, env, sound, ui, bl, cl, presence_threads>> /\ UNCHANGED session

\* ---------------------------------------------------------- specifications
\* The broadcast listener writes the sender fields and never reads the
\* registry; the control listener writes the registry and never reads the
\* sender fields; the periodic threads write neither. Each specification runs
\* the UI thread with the threads that share state with what it is about.

\* Spec: the registry of one node. Its UI thread and its control listener,
\* among hosts that send it whatever they like.
Next ==
    \/ \E n \in Nodes : StartAsSender(n)
    \/ \E n \in Nodes : StartAsReceiver(n)
    \/ \E n \in Nodes : DisconnectAll(n)
    \/ \E n \in Nodes, selected \in Selections : ConnectToReceivers(n, selected)
    \/ \E n \in Nodes, text \in Texts : SendChat(n, text)
    \/ \E n \in Nodes : MessageSent(n)
    \/ \E n \in Nodes : ResetClose(n)
    \/ \E n \in Nodes : ResetClearConnections(n)
    \/ \E n \in Nodes : ResetClearRest(n)
    \/ \E n \in Nodes : EnterRole(n)
    \/ \E n \in Nodes : ControlRecv(n)
    \/ \E n \in Nodes : ControlJoinInsert(n)
    \/ \E n \in Nodes : ControlJoinEmit(n)
    \/ \E n \in Nodes : ControlChatEmit(n)
    \/ \E n \in Nodes : ControlRelaySnapshot(n)
    \/ \E n \in Nodes : ControlRelayIter(n)
    \/ \E n \in Nodes : ControlLoop(n)

Spec == Init /\ [][Next]_vars

\* SpecDiscovery: the sender fields of one node. Its UI thread, its broadcast
\* listener and its periodic threads, among hosts that send it whatever they
\* like. Nothing joins, so there is never a socket to close.
DiscoveryNext ==
    \/ \E n \in Nodes : StartAsSender(n)
    \/ \E n \in Nodes : StartAsReceiver(n)
    \/ \E n \in Nodes, text \in Texts : SendChat(n, text)
    \/ \E n \in Nodes : MessageSent(n)
    \/ \E n \in Nodes : ResetClearConnections(n)
    \/ \E n \in Nodes : ResetClearRest(n)
    \/ \E n \in Nodes : EnterRole(n)
    \/ \E n \in Nodes : BroadcastRecv(n)
    \/ \E n \in Nodes : BroadcastSetSender(n)
    \/ \E n \in Nodes : BroadcastEmit(n)
    \/ \E n \in Nodes : BroadcastJoin(n)
    \/ \E n \in Nodes : BroadcastExcept(n)
    \/ \E n \in Nodes : PresenceLoop(n)
    \/ \E n \in Nodes : DiscoverLoop(n)

SpecDiscovery == Init /\ [][DiscoveryNext]_vars

\* Every thread that can take a step takes one.
ThreadsRun ==
    \A n \in Nodes :
        /\ WF_vars(ResetClearConnections(n)) /\ WF_vars(ResetClearRest(n))
        /\ WF_vars(EnterRole(n)) /\ WF_vars(MessageSent(n))
        /\ WF_vars(PresenceLoop(n)) /\ WF_vars(DiscoverLoop(n))
        /\ WF_vars(BroadcastSetSender(n)) /\ WF_vars(BroadcastEmit(n))
        /\ WF_vars(BroadcastJoin(n)) /\ WF_vars(BroadcastExcept(n))
        /\ WF_vars(ControlJoinInsert(n)) /\ WF_vars(ControlJoinEmit(n))
        /\ WF_vars(ControlChatEmit(n)) /\ WF_vars(ControlRelaySnapshot(n))
        /\ WF_vars(ControlRelayIter(n)) /\ WF_vars(ControlLoop(n))

\* SpecDiscoveryFair: SpecDiscovery with every thread scheduled, the periodic
\* threads' turns included (their sleep ends).
SpecDiscoveryFair == SpecDiscovery /\ ThreadsRun

\* A socket's queue is first in, first out: recvfrom returns every datagram
\* that stays in it. A listener that is back in recvfrom and finds a datagram
\* of host m takes one; a control listener, which leaves recvfrom for every
\* chat, takes one of every author that keeps sending to it.
Names == {NameOf(n) : n \in Nodes}

DatagramsArrive ==
    /\ \A n \in Nodes, m \in Nodes :
          WF_vars(\E d \in Inbox(n, BROADCAST_PORT) :
                     d.src = m /\ BroadcastReceive(n, d))
    /\ \A n \in Nodes, name \in Names :
          SF_vars(\E d \in Inbox(n, CONTROL_PORT) :
                     d.name = name /\ ControlReceive(n, d))

\* SpecPair: node A picks the sender role and node B the receiver role, once
\* each and in any order, on a LAN that has nobody else.
InitPair == InitNodes /\ up = {ipA, ipB} /\ env = FALSE

PairNext ==
    \/ \E n \in {ipA} : role[n] = None /\ StartAsSender(n)
    \/ \E n \in {ipB} : role[n] = None /\ StartAsReceiver(n)
    \/ \E n \in Nodes : ResetClearConnections(n)
    \/ \E n \in Nodes : ResetClearRest(n)
    \/ \E n \in Nodes : EnterRole(n)
    \/ \E n \in Nodes : PresenceLoop(n)
    \/ \E n \in Nodes : DiscoverLoop(n)
    \/ \E n \in Nodes : BroadcastRecv(n)
    \/ \E n \in Nodes : BroadcastSetSender(n)
    \/ \E n \in Nodes : BroadcastEmit(n)
    \/ \E n \in Nodes : BroadcastJoin(n)
    \/ \E n \in Nodes : ControlRecv(n)
    \/ \E n \in Nodes : ControlJoinInsert(n)
    \/ \E n \in Nodes : ControlJoinEmit(n)
    \/ \E n \in Nodes : ControlLoop(n)

SpecPair == InitPair /\ [][PairNext]_vars /\ ThreadsRun /\ DatagramsArrive

\* SpecChat: the star once it is set up. A is the sender, B and C have found
\* it and joined, A has connected to both; from there the receivers chat.
Star(n) == IF n = ipA THEN <<[id |-> MakeDevId(ipB, "B"), sock |-> 1],
                             [id |-> MakeDevId(ipC, "C"), sock |-> 2]>>
           ELSE <<>>

InitChat ==
    /\ up = Nodes /\ env = FALSE
    /\ role = [n \in Nodes |-> IF n = ipA THEN "sender" ELSE "receiver"]
    /\ local_name = [n \in Nodes |-> NameOf(n)]
    /\ sender_ip = [n \in Nodes |-> IF n = ipA THEN None ELSE ipA]
    /\ sender_name = [n \in Nodes |-> IF n = ipA THEN "" ELSE "A"]
    /\ devices = [n \in Nodes |->
                    IF n = ipA
                    THEN Upsert(Upsert(NoDevices, MakeDevId(ipB, "B"),
                                       DeviceRecord(ipB, "B")),
                                MakeDevId(ipC, "C"), DeviceRecord(ipC, "C"))
                    ELSE NoDevices]
    /\ connections = [n \in Nodes |-> Star(n)]
    /\ lock = [n \in Nodes |-> FALSE]
    /\ openSocks = [n \in Nodes |-> ConnSocks(Star(n))]
    /\ ui = [n \in Nodes |-> UiIdle]
    /\ bl = [n \in Nodes |-> BlIdle]
    /\ cl = [n \in Nodes |-> ClIdle]
    /\ presence_threads = [n \in Nodes |-> IF n = ipA THEN 1 ELSE 0]
    /\ discovery_threads = [n \in Nodes |-> IF n = ipA THEN 0 ELSE 1]
    /\ net = {}
    /\ joined = [n \in Nodes |->
                   IF n = ipA THEN {<<ipB, "B">>, <<ipC, "C">>} ELSE {}]
    /\ connected = [n \in Nodes |-> ConnIds(Star(n))]
    /\ InitSound("0")

ChatNext ==
    \/ \E n \in Nodes \ {ipA}, text \in Texts : SendChat(n, text)
    \/ \E n \in Nodes : MessageSent(n)
    \/ \E n \in Nodes : ControlRecv(n)
    \/ \E n \in Nodes : ControlChatEmit(n)
    \/ \E n \in Nodes : ControlRelaySnapshot(n)
    \/ \E n \in Nodes : ControlRelayIter(n)
    \/ \E n \in Nodes : ControlLoop(n)

SpecChat == InitChat /\ [][ChatNext]_vars /\ ThreadsRun /\ DatagramsArrive

\* SpecNoise: both listeners of one node and its role switches, MaxThreads
\* sessions in all, among hosts that send it whatever they like.
Sessions(n) == presence_threads[n] + discovery_threads[n]

NoiseNext ==
    \/ \E n \in Nodes : Sessions(n) < MaxThreads /\ StartAsSender(n)
    \/ \E n \in Nodes : Sessions(n) < MaxThreads /\ StartAsReceiver(n)
    \/ \E n \in Nodes : ResetClearConnections(n)
    \/ \E n \in Nodes : ResetClearRest(n)
    \/ \E n \in Nodes : EnterRole(n)
    \/ \E n \in Nodes : BroadcastRecv(n)
    \/ \E n \in Nodes : BroadcastSetSender(n)
    \/ \E n \in Nodes : BroadcastEmit(n)
    \/ \E n \in Nodes : BroadcastJoin(n)
    \/ \E n \in Nodes : BroadcastExcept(n)
    \/ \E n \in Nodes : ControlRecv(n)
    \/ \E n \in Nodes : ControlJoinInsert(n)
    \/ \E n \in Nodes : ControlJoinEmit(n)
    \/ \E n \in Nodes : ControlChatEmit(n)
    \/ \E n \in Nodes : ControlRelaySnapshot(n)
    \/ \E n \in Nodes : ControlLoop(n)

SpecNoise == Init /\ [][NoiseNext]_vars

\* SpecAudio: the AudioManager of one node with its UI thread, the capture
\* callback and the playback loop. The node is fresh, or it is a sender that
\* hosts B and C have joined; it has a loopback device or none.
InitAudio ==
    /\ up = {ipA} /\ env = TRUE
    /\ \E fresh \in BOOLEAN :
         /\ role = [n \in Nodes |-> IF n = ipA /\ ~fresh THEN "sender" ELSE None]
         /\ local_name = [n \in Nodes |-> IF n = ipA /\ ~fresh THEN "A" ELSE ""]
         /\ devices = [n \in Nodes |->
                         IF n = ipA /\ ~fresh
                         THEN Upsert(Upsert(NoDevices, MakeDevId(ipB, "B"),
                                            DeviceRecord(ipB, "B")),
                                     MakeDevId(ipC, "C"), DeviceRecord(ipC, "C"))
                         ELSE NoDevices]
         /\ joined = [n \in Nodes |->
                        IF n = ipA /\ ~fresh
                        THEN {<<ipB, "B">>, <<ipC, "C">>} ELSE {}]
         /\ presence_threads = [n \in Nodes |->
                                  IF n = ipA /\ ~fresh THEN 1 ELSE 0]
    /\ sender_ip = [n \in Nodes |-> None]
    /\ sender_name = [n \in Nodes |-> ""]
    /\ connections = [n \in Nodes |-> <<>>]
    /\ lock = [n \in Nodes |-> FALSE]
    /\ openSocks = [n \in Nodes |-> {}]
    /\ ui = [n \in Nodes |-> UiIdle]
    /\ bl = [n \in Nodes |-> BlIdle]
    /\ cl = [n \in Nodes |-> ClIdle]
    /\ discovery_threads = [n \in Nodes |-> 0]
    /\ net = {}
    /\ connected = [n \in Nodes |-> {}]
    /\ \E loopback \in {None, "0"} : InitSound(loopback)

\* The receivers' list items the user may select: none, one or both.
AudioSelections ==
    {<<>>, <<MakeDevId(ipB, "B")>>, <<MakeDevId(ipC, "C")>>,
     <<MakeDevId(ipB, "B"), MakeDevId(ipC, "C")>>}

AudioNext ==
    \/ \E n \in Nodes : StartAsSender(n)
    \/ \E n \in Nodes : StartAsReceiver(n)
    \/ \E n \in Nodes : ResetClose(n)
    \/ \E n \in Nodes : ResetClearConnections(n)
    \/ \E n \in Nodes : ResetClearRest(n)
    \/ \E n \in Nodes : EnterRole(n)
    \/ \E n \in Nodes, text \in Texts : SendChat(n, text)
    \/ \E n \in Nodes : MessageSent(n)
    \/ \E n \in Nodes, selected \in AudioSelections : StartStream(n, selected)
    \/ \E n \in Nodes : StartCapture(n)
    \/ \E n \in Nodes : Dismiss(n)
    \/ \E n \in Nodes : StopStream(n)
    \/ \E n \in Nodes : StopCaptureClose(n)
    \/ \E n \in Nodes : StartPlayback(n)
    \/ \E n \in Nodes : StopPlayback(n)
    \/ \E n \in Nodes : CallbackEnter(n)
    \/ \E n \in Nodes : CallbackSnapshot(n)
    \/ \E n \in Nodes : CallbackIter(n)
    \/ \E n \in Nodes : CallbackSleep(n)
    \/ \E n \in Nodes : CallbackReturn(n)
    \/ \E n \in Nodes : PlayerLoop(n)
    \/ \E n \in Nodes : StaleLoopExit(n)

SpecAudio == InitAudio /\ [][AudioNext]_vars

\* SpecWindow: the same threads, driven through the handlers of MainWindow. The
\* node is a sender whose list shows B and C, which stay listed over role
\* switches. The buttons' setEnabled is left out: every click it rules out is
\* allowed here.
InitWindow == InitAudio /\ role[ipA] = "sender"

\* stack.setCurrentIndex(0) for a sender, (1) for a receiver: the sender page,
\* with the list and the stream buttons, is the one shown.
SenderPage(n) == role[n] /= "receiver"

\* _role_selected has returned from start_as_sender or start_as_receiver and
\* its call of stop_playback or start_playback is still to make a change.
RoleSelectedPending(n) ==
    \/ role[n] = "sender" /\ audio[n].receiver /= None
    \/ role[n] = "receiver" /\ audio[n].receiver = None

WindowNext ==
    \/ \E n \in Nodes : ~RoleSelectedPending(n) /\ StartAsSender(n)
    \/ \E n \in Nodes : ~RoleSelectedPending(n) /\ StartAsReceiver(n)
    \/ \E n \in Nodes : ResetClose(n)
    \/ \E n \in Nodes : ResetClearConnections(n)
    \/ \E n \in Nodes : ResetClearRest(n)
    \/ \E n \in Nodes : EnterRole(n)
    \/ \E n \in Nodes : role[n] = "sender" /\ RoleSelectedPending(n)
                          /\ StopPlayback(n)
    \/ \E n \in Nodes : role[n] = "receiver" /\ RoleSelectedPending(n)
                          /\ StartPlayback(n)
    \/ \E n \in Nodes, selected \in AudioSelections :
          ~RoleSelectedPending(n) /\ SenderPage(n) /\ StartStream(n, selected)
    \/ \E n \in Nodes : StartCapture(n)
    \/ \E n \in Nodes : Dismiss(n)
    \/ \E n \in Nodes : ~RoleSelectedPending(n) /\ SenderPage(n) /\ StopStream(n)
    \/ \E n \in Nodes : StopCaptureClose(n)
    \/ \E n \in Nodes : CallbackEnter(n)
    \/ \E n \in Nodes : CallbackSnapshot(n)
    \/ \E n \in Nodes : CallbackIter(n)
    \/ \E n \in Nodes : CallbackSleep(n)
    \/ \E n \in Nodes : CallbackReturn(n)
    \/ \E n \in Nodes : PlayerLoop(n)
    \/ \E n \in Nodes : StaleLoopExit(n)

SpecWindow == InitWindow /\ [][WindowNext]_vars

\* -------------------------------------------------------------- properties
\* The UI thread of node n is inside _reset or the rest of a role switch.
InRoleSwitch(n) ==
    ui[n].pc /= "idle" /\ ui[n].op \in {"start_as_sender", "start_as_receiver"}

\* C1: when start_as_receiver returns on a node that was a sender, its
\* registry is empty, it has no connection, and every socket that
\* connect_to_receivers opened is closed.
C1_EmptyAfterSenderThenReceiver ==
    [][\A n \in Nodes :
         (ui[n].op = "start_as_receiver" /\ ui[n].from = "sender"
          /\ ui[n].pc /= "idle" /\ ui'[n].pc = "idle")
         => (DOMAIN devices'[n] = {} /\ connections'[n] = <<>>
             /\ openSocks'[n] = {})]_vars

\* C2: sender_ip is set only while the role is receiver: it is None whenever
\* the role is None or sender.
C2_SenderIpOnlyAsReceiver ==
    \A n \in Nodes : sender_ip[n] /= None => role[n] = "receiver"

\* C3: while a _reset is in progress, every (dev_id, socket) pair a reader still
\* holds from its snapshot of connections has its record in devices and its
\* socket open.
C3_ResetAtomicForReaders ==
    \A n \in Nodes :
        (cl[n].pc = "relay_iter" /\ InRoleSwitch(n))
        => \A k \in cl[n].idx..Len(cl[n].snap) :
              /\ cl[n].snap[k].id \in DOMAIN devices[n]
              /\ cl[n].snap[k].sock \in openSocks[n]

\* The address in a dev_id.
DevIdAddress(id) ==
    CHOOSE ip \in Nodes : \E name \in {"A", "B", "C"} : MakeDevId(ip, name) = id

\* The addresses of the peers of conns, in order, whose PeerId is not p.
RECURSIVE OthersOf(_, _)
OthersOf(conns, p) ==
    IF conns = <<>>
    THEN <<>>
    ELSE (IF Head(conns).id = p THEN <<>> ELSE <<DevIdAddress(Head(conns).id)>>)
         \o OthersOf(Tail(conns), p)

\* C4: when the relay of a chat that came from peer P is over, exactly one copy
\* went to every connected peer whose PeerId is not P's, and none to P.
C4_RelayToEveryOtherPeer ==
    \A n \in Nodes :
        (cl[n].pc = "relay_iter" /\ cl[n].idx > Len(cl[n].snap))
        => cl[n].sent = OthersOf(cl[n].snap, MakeDevId(cl[n].ip, cl[n].name))

\* The control listener of node n has just surfaced the chat `text` of `name`.
Surfaced(n, name, text) ==
    /\ cl[n].pc \in {"relay_snapshot", "chat_done"}
    /\ cl[n].name = name /\ cl[n].text = text

C6_ReceiverWithoutSenderSendsNothing ==
    [][\A n \in Nodes, text \in Texts :
         (role[n] = "receiver" /\ sender_ip[n] = None /\ SendChat(n, text))
         => (ui'[n].i = 0 /\ net' = net /\ UNCHANGED session)]_vars

\* send_chat has just returned on a receiver that has no sender_ip.
C6_Witness ==
    \E n \in Nodes :
        /\ ui[n].pc = "message_sent" /\ ui[n].from = "receiver"
        /\ sender_ip[n] = None /\ role[n] = "receiver"

\* C7: the registry holds exactly one record for every (address, name) that
\* joined since the last reset, and as many records as such pairs.
C7_OneRecordPerPeerId ==
    \A n \in Nodes :
        /\ Cardinality(DOMAIN devices[n]) = Cardinality(joined[n])
        /\ \A p \in joined[n] :
              /\ MakeDevId(p[1], p[2]) \in DOMAIN devices[n]
              /\ devices[n][MakeDevId(p[1], p[2])] = DeviceRecord(p[1], p[2])

\* A join of a peer that was registered already has just been upserted, with
\* two peers in the registry.
C7_Witness ==
    \E n \in Nodes :
        /\ cl[n].pc = "join_emit" /\ cl[n].dup
        /\ Cardinality(DOMAIN devices[n]) = 2

\* C8: connections holds a socket for exactly the peers connect_to_receivers
\* accepted since the last clear, each of them has a record, and no step of a
\* listener changes connections.
C8_ConnectedIffConnectCalled ==
    /\ [](\A n \in Nodes :
            /\ ConnIds(connections[n]) = connected[n]
            /\ ConnIds(connections[n]) \subseteq DOMAIN devices[n])
    /\ [][\A n \in Nodes :
            (cl'[n] /= cl[n] \/ bl'[n] /= bl[n])
            => connections'[n] = connections[n]]_vars

\* A join has just been handled on a node that has two peers registered and
\* one of them connected.
C8_Witness ==
    \E n \in Nodes :
        /\ cl[n].pc = "join_done"
        /\ Cardinality(DOMAIN devices[n]) = 2
        /\ Len(connections[n]) = 1

\* C9: once A is a sender and B a receiver, B's listener emits
\* sender_status_changed(True, "A"), and A's listener emits device_discovered
\* for B's dev_id with B's record in A's registry.
C9_PairDiscoversEachOther ==
    /\ (role[ipA] = "sender" /\ role[ipB] = "receiver")
         ~> (bl[ipB].pc = "join" /\ bl[ipB].emitted = "A")
    /\ (role[ipA] = "sender" /\ role[ipB] = "receiver")
         ~> (/\ cl[ipA].pc = "join_done"
             /\ MakeDevId(cl[ipA].ip, cl[ipA].name) = MakeDevId(ipB, "B")
             /\ MakeDevId(ipB, "B") \in DOMAIN devices[ipA]
             /\ devices[ipA][MakeDevId(ipB, "B")] = DeviceRecord(ipB, "B"))

\* A has just emitted device_discovered for B, which knows A as its sender.
C9_Witness ==
    /\ cl[ipA].pc = "join_done" /\ cl[ipA].ip = ipB
    /\ MakeDevId(ipB, "B") \in DOMAIN devices[ipA]
    /\ sender_ip[ipB] = ipA /\ sender_name[ipB] = "A"

\* C10: no listener acts on a datagram whose source address is the node's own.
C10_OwnAddressRejected ==
    \A n \in Nodes :
        /\ cl[n].pc /= "recv" => cl[n].ip /= n
        /\ bl[n].pc /= "recv" => bl[n].ip /= n

\* C11: send_chat while no role is active, and _start_stream with an empty
\* selection, are refused with a message to the user and change nothing: no
\* datagram, no socket, no capture, and the text is not emitted as a sent
\* message.
C11_MisuseRejected ==
    [][\A n \in Nodes :
         /\ (role[n] = None /\ \E text \in Texts : SendChat(n, text))
            => (ui'[n].pc = "warning" /\ net' = net
                /\ UNCHANGED session /\ UNCHANGED sound)
         /\ StartStream(n, <<>>)
            => (ui'[n].pc = "warning" /\ net' = net
                /\ UNCHANGED session /\ UNCHANGED sound)
         /\ (ui[n].op = "send_chat" /\ ui[n].from = None)
            => ~MessageSent(n)]_vars

\* C12: no resource is closed a second time or dropped while open, and once
\* stop_capture or stop_playback has cleared its reference the stream and the
\* socket it opened are closed.
C12_StopIdempotent ==
    \A n \in Nodes :
        /\ faults[n] = {}
        /\ (ui[n].pc = "idle" /\ audio[n].capture_stream = None)
           => capture[n] /= "open"
        /\ audio[n].receiver = None
           => (player[n].sock /= "open" /\ player[n].stream /= "open")

\* stop_capture runs again after it closed the capture stream, and
\* stop_playback has stopped a player.
C12_Witness ==
    \E n \in Nodes :
        /\ ui[n].pc = "stop_capture" /\ audio[n].capture_stream = None
        /\ capture[n] = "closed"
        /\ audio[n].receiver = None /\ player[n].sock = "closed"
        /\ player[n].stream = "closed"

\* C14: when the callback is through with a block that came while capture
\* was on, it has tried one send to each peer that was connected and had a
\* record when the block's peers were taken, in their order; for a block that
\* came while capture was off it has tried none.
C14_BlockSentToEveryPeer ==
    \A n \in Nodes :
        cb[n].pc = "done"
        => cb[n].sent = (IF cb[n].active THEN cb[n].due ELSE <<>>)

\* A datagram that is no message of the protocol.
Foreign(d) == ~Decodes(d) \/ d.type \notin ProtocolTypes

\* C13: a listener that receives a datagram that is no message of the protocol
\* changes nothing of the session, starts no emit and no send, and goes on to
\* recvfrom again, at once or through its `except: pass`.
C13_NoiseDiscarded ==
    [][\A n \in Nodes :
         /\ \A d \in Inbox(n, CONTROL_PORT) :
               (Foreign(d) /\ ControlReceive(n, d))
               => (cl'[n].pc \in {"recv", "except"} /\ net' \subseteq net
                   /\ UNCHANGED session)
         /\ \A d \in Inbox(n, BROADCAST_PORT) :
               (Foreign(d) /\ BroadcastReceive(n, d))
               => (bl'[n].pc \in {"recv", "except"} /\ net' \subseteq net
                   /\ UNCHANGED session)
         /\ (cl[n].pc = "except" /\ cl'[n] /= cl[n])
            => (cl'[n] = ClIdle /\ net' = net /\ UNCHANGED session)
         /\ (bl[n].pc = "except" /\ bl'[n] /= bl[n])
            => (bl'[n] = BlIdle /\ net' = net /\ UNCHANGED session)]_vars

\* Both listeners of a sender that has a peer registered are in their
\* `except: pass`.
C13_Witness ==
    \E n \in Nodes :
        /\ cl[n].pc = "except" /\ bl[n].pc = "except"
        /\ role[n] = "sender" /\ DOMAIN devices[n] /= {}

\* C15: send_chat of a sender that is not in the middle of another command
\* hands to sendto exactly one chat datagram per entry of connections,
\* addressed to that peer, and none for a peer of devices that is not in
\* connections.
C15_SenderChatOncePerConnection ==
    [][\A n \in Nodes : \A text \in Texts :
         (role[n] = "sender" /\ SendChat(n, text))
         => /\ SendChatOut(n, text)
                = [k \in 1..Len(connections[n]) |->
                     ChatMsg(n, DevIdAddress(connections[n][k].id),
                             local_name[n], text)]
            /\ ui'[n].i = Len(connections[n])]_vars

\* A sender with a connected peer and a peer that only joined has sent a
\* chat, to the connected one.
C15_Witness ==
    \E n \in Nodes :
        /\ ui[n].pc = "message_sent" /\ ui[n].from = "sender"
        /\ ui[n].i = 1 /\ Len(connections[n]) = 1
        /\ \E id \in DOMAIN devices[n] : id \notin ConnIds(connections[n])

\* C16: the announce threads of earlier sender sessions exit, and so do the
\* probe threads of earlier receiver sessions: a session starts one thread,
\* so whenever a node has more than one thread of a kind, it later has at most
\* one.
C16_EarlierThreadsExit ==
    \A n \in Nodes :
        /\ (presence_threads[n] > 1) ~> (presence_threads[n] <= 1)
        /\ (discovery_threads[n] > 1) ~> (discovery_threads[n] <= 1)

\* C17: a node has at most one announce thread and at most one probe thread.
C17_OneThreadPerTask ==
    \A n \in Nodes : presence_threads[n] <= 1 /\ discovery_threads[n] <= 1

\* C18: the registry of a node whose role is not sender is empty.
C18_DevicesEmptyUnlessSender ==
    \A n \in Nodes : role[n] /= "sender" => DOMAIN devices[n] = {}

\* C19: devices and connections change only in a step of a thread that holds
\* the lock (the UI thread inside `with self._lock`, or the control listener
\* in its `with self._lock` block, which it enters and leaves in one step), and
\* a thread that holds the lock sends nothing.
C19_MutationsUnderLock ==
    [][\A n \in Nodes :
         /\ connections'[n] /= connections[n] => lock[n]
         /\ devices'[n] /= devices[n] => (lock[n] \/ ControlJoinInsert(n))
         /\ (lock[n] /\ ui'[n] /= ui[n]) => net' = net
         /\ ControlJoinInsert(n) => net' = net]_vars

\* C20 as stated: the broadcast listener of a receiver that took a presence
\* of the sender it had recorded already sends no join.
C20_JoinOncePerSender ==
    [][\A n \in Nodes :
         (bl[n].pc = "join" /\ bl[n].known /\ bl'[n].pc = "recv")
         => SendJoinOut(n) = <<>>]_vars

\* C20, amended: the broadcast listener of a receiver that took a presence of
\* the sender it had recorded already sends a join to it again, and sends
\* none only when a reset has cleared sender_ip since.
C20_JoinPerPresence ==
    [][\A n \in Nodes :
         (bl[n].pc = "join" /\ bl[n].known /\ bl'[n].pc = "recv")
         => IF sender_ip[n] = None
            THEN net' = net
            ELSE /\ sender_ip[n] = bl[n].ip
                 /\ SendJoinOut(n) = <<JoinMsg(n, bl[n].ip)>>
                 /\ bl[n].ip \in up => JoinMsg(n, bl[n].ip) \in net']_vars

\* The sender is about to announce a join of the receiver that it had in its
\* registry already: the receiver joined again.
C20_Witness ==
    /\ cl[ipA].pc = "join_emit" /\ cl[ipA].dup /\ cl[ipA].ip = ipB
    /\ role[ipA] = "sender" /\ sender_ip[ipB] = ipA

\* C21: once stop_playback has returned for a player (receiver is None again
\* and the player's loop thread had been started), the player's socket and
\* output stream are closed and its loop thread is over, so that it writes
\* nothing to the stream any more.
C21_StopJoinsLoop ==
    \A n \in Nodes :
        (audio[n].receiver = None /\ player[n].loop /= "none")
        => /\ player[n].sock = "closed" /\ player[n].stream = "closed"
           /\ player[n].loop = "exited"

\* C22: whenever the handlers of the window have run to their end, capture is
\* on only on a sender.
C22_StreamingOnlyAsSender ==
    \A n \in Nodes :
        (ui[n].pc = "idle" /\ ~RoleSelectedPending(n) /\ audio[n].is_streaming)
        => role[n] = "sender"

\* C23: when start_capture or stop_capture is over, by its return or by an
\* exception, whether the process outlives it or not, is_streaming is on
\* exactly when there is a capture stream.
C23_StreamingIffStream ==
    \A n \in Nodes :
        ui[n].pc = "idle"
        => (audio[n].is_streaming <=> audio[n].capture_stream /= None)

====
